---------------------------- MODULE Spec2Model ----------------------------
(***************************************************************************)
(* Model of the ValutaTrade Hub core: Wallet and Portfolio                 *)
(* (core/models.py), UserManager's portfolio store, CurrencyService's rate *)
(* cache and TradingService (core/usecases.py).                            *)
(*                                                                         *)
(* Python floats are modelled as exact rationals [n, d] in lowest terms    *)
(* with d > 0, so every equality below is an equality of real numbers.     *)
(* Time is counted in whole minutes.                                       *)
(***************************************************************************)
EXTENDS Integers, Sequences, FiniteSets, TLC

VARIABLES
    pf,      \* the wallets of an in-memory Portfolio
    plast,   \* the last call made on pf: arguments, wallets before, result
    store,   \* portfolios.json: str(user_id) -> portfolio record
    rates,   \* rates.json: "FROM_TO" -> quote, plus source and last_refresh
    now,     \* datetime.now(), in minutes
    steps,   \* number of rate updates and trades made so far
    tlast,   \* the last step: a service call with its arguments, the state
             \* before it and its outcome, or a tick of the clock
    lastSet, \* the most recent update_exchange_rate call and its time
    procs    \* concurrent trades: position, arguments, loaded portfolio

vars == <<pf, plast, store, rates, now, steps, tlast, lastSet, procs>>

(***************************************************************************)
(* Bounds of the model.                                                    *)
(***************************************************************************)
MaxBalance == 4
MaxTime == 5
MaxSteps == 2
MaxUpdates == 1

(***************************************************************************)
(* Exact rational arithmetic (the float operations of the source).         *)
(***************************************************************************)
Abs(i) == IF i < 0 THEN -i ELSE i

RECURSIVE Gcd(_, _)
Gcd(a, b) == IF b = 0 THEN a ELSE Gcd(b, a % b)

Rat(n, d) ==
    LET g == Gcd(Abs(n), Abs(d))
        s == IF d < 0 THEN -1 ELSE 1
    IN [n |-> (s * n) \div g, d |-> (s * d) \div g]

Zero == [n |-> 0, d |-> 1]
One == [n |-> 1, d |-> 1]

RAdd(x, y) ==
    LET g == Gcd(x.d, y.d)
    IN Rat(x.n * (y.d \div g) + y.n * (x.d \div g), (x.d \div g) * y.d)

RNeg(x) == [n |-> -x.n, d |-> x.d]

RSub(x, y) == RAdd(x, RNeg(y))

RMul(x, y) ==
    LET g1 == Gcd(Abs(x.n), y.d)
        g2 == Gcd(Abs(y.n), x.d)
        h1 == IF g1 = 0 THEN 1 ELSE g1
        h2 == IF g2 = 0 THEN 1 ELSE g2
    IN Rat((x.n \div h1) * (y.n \div h2), (x.d \div h2) * (y.d \div h1))

\* x / y for y # 0
RDiv(x, y) == RMul(x, Rat(y.d, y.n))

RLt(x, y) == RSub(x, y).n < 0
RLe(x, y) == RSub(x, y).n <= 0

(***************************************************************************)
(* Currency codes.  str.upper() on the codes the model feeds in.           *)
(***************************************************************************)
Upper(code) ==
    CASE code = "btc" -> "BTC"
      [] code = "usd" -> "USD"
      [] OTHER -> code

(***************************************************************************)
(* Wallet                                                                  *)
(***************************************************************************)
\* Wallet.currency_code setter: non-empty, exactly 3 characters
WalletCodeOk(code) == code # "" /\ Len(code) = 3

\* Wallet.balance setter: rejects negative values
WalletBalanceOk(value) == ~ RLt(value, Zero)

\* Wallet.deposit: res is "ok" or "ValueError"; balance is the balance after
WalletDeposit(balance, amount) ==
    IF RLe(amount, Zero)
    THEN [res |-> "ValueError", balance |-> balance]
    ELSE IF ~ WalletBalanceOk(RAdd(balance, amount))
         THEN [res |-> "ValueError", balance |-> balance]
         ELSE [res |-> "ok", balance |-> RAdd(balance, amount)]

WalletWithdrawNoCheck(balance, amount) ==
    IF RLe(amount, Zero)
    THEN [res |-> "ValueError", balance |-> balance]
    ELSE [res |-> "True", balance |-> RSub(balance, amount)]

\* Wallet.withdraw: res is "True", "False" or "ValueError"
WalletWithdraw(balance, amount) ==
    IF RLe(amount, Zero)
    THEN [res |-> "ValueError", balance |-> balance]
    ELSE IF RLt(balance, amount)
         THEN [res |-> "False", balance |-> balance]
         ELSE IF ~ WalletBalanceOk(RSub(balance, amount))
              THEN [res |-> "ValueError", balance |-> balance]
              ELSE [res |-> "True", balance |-> RSub(balance, amount)]

(***************************************************************************)
(* Portfolio: _wallets is a function from upper-case code to balance.      *)
(***************************************************************************)
EmptyWallets == [c \in {} |-> Zero]

PutWallet(w, code, balance) ==
    [c \in DOMAIN w \cup {code} |-> IF c = code THEN balance ELSE w[c]]

\* Portfolio.get_wallet: TRUE when a wallet (never falsy) is returned
HasWallet(w, code) == Upper(code) \in DOMAIN w

AddCurrencyOverwrites(w, code, initial) ==
    IF code = ""
    THEN [res |-> "ValueError", wallets |-> w]
    ELSE IF ~ WalletCodeOk(code) \/ ~ WalletBalanceOk(initial)
         THEN [res |-> "ValueError", wallets |-> w]
         ELSE [res |-> "ok", wallets |-> PutWallet(w, Upper(code), initial)]

\* Portfolio.add_currency
AddCurrency(w, code, initial) ==
    IF code = ""
    THEN [res |-> "ValueError", wallets |-> w]
    ELSE IF Upper(code) \in DOMAIN w
         THEN [res |-> "ValueError", wallets |-> w]
         ELSE IF ~ WalletCodeOk(code) \/ ~ WalletBalanceOk(initial)
              THEN [res |-> "ValueError", wallets |-> w]
              ELSE [res |-> "ok", wallets |-> PutWallet(w, Upper(code), initial)]

\* the two mutations of a trade: withdraw from one wallet, then deposit into
\* another (possibly the same object)
Settle(w, fromCode, out, toCode, in) ==
    LET wd == WalletWithdraw(w[fromCode], out)
    IN IF wd.res = "True"
       THEN LET w2 == [w EXCEPT ![fromCode] = wd.balance]
                dep == WalletDeposit(w2[toCode], in)
            IN [res |-> IF dep.res = "ok" THEN "True" ELSE "ValueError",
                wallets |-> [w2 EXCEPT ![toCode] = dep.balance]]
       ELSE [res |-> wd.res, wallets |-> w]

BuyValidatedStrict(w, target, amount, price) ==
    LET total_cost == RMul(amount, price)
        add == AddCurrency(w, target, Zero)
    IN IF ~ HasWallet(w, target) /\ add.res # "ok"
       THEN [res |-> "ValueError", wallets |-> w]
       ELSE LET w1 == IF HasWallet(w, target) THEN w ELSE add.wallets
            IN IF ~ HasWallet(w1, "USD")
               THEN [res |-> "ValueError", wallets |-> w1]
               ELSE IF RLe(w1["USD"], total_cost)
               THEN [res |-> "False", wallets |-> w1]
               ELSE Settle(w1, "USD", total_cost, Upper(target), amount)

\* Portfolio.buy_currency after its argument validation
BuyValidated(w, target, amount, price) ==
    LET total_cost == RMul(amount, price)
        add == AddCurrency(w, target, Zero)
    IN IF ~ HasWallet(w, target) /\ add.res # "ok"
       THEN [res |-> "ValueError", wallets |-> w]
       ELSE LET w1 == IF HasWallet(w, target) THEN w ELSE add.wallets
            IN IF ~ HasWallet(w1, "USD")
               THEN [res |-> "ValueError", wallets |-> w1]
               ELSE IF RLt(w1["USD"], total_cost)
               THEN [res |-> "False", wallets |-> w1]
               ELSE Settle(w1, "USD", total_cost, Upper(target), amount)

BuyCurrencyNoPriceCheck(w, target, amount, price) ==
    IF RLe(amount, Zero)
    THEN [res |-> "ValueError", wallets |-> w]
    ELSE BuyValidated(w, target, amount, price)

\* Portfolio.buy_currency
BuyCurrency(w, target, amount, price) ==
    IF RLe(amount, Zero)
    THEN [res |-> "ValueError", wallets |-> w]
    ELSE IF RLe(price, Zero)
    THEN [res |-> "ValueError", wallets |-> w]
    ELSE BuyValidated(w, target, amount, price)

\* Portfolio.sell_currency
SellCurrency(w, source, amount, price) ==
    IF RLe(amount, Zero)
    THEN [res |-> "ValueError", wallets |-> w]
    ELSE IF RLe(price, Zero)
    THEN [res |-> "ValueError", wallets |-> w]
    ELSE LET total_income == RMul(amount, price)
         IN IF ~ HasWallet(w, source)
            THEN [res |-> "ValueError", wallets |-> w]
            ELSE LET w1 == IF HasWallet(w, "USD") THEN w
                           ELSE AddCurrency(w, "USD", Zero).wallets
                 IN IF RLt(w1[Upper(source)], amount)
                    THEN [res |-> "False", wallets |-> w1]
                    ELSE Settle(w1, Upper(source), amount, "USD", total_income)

\* the exchange_rates table of Portfolio.get_total_value: units of USD per
\* unit of the currency
ExchangeRates ==
    [c \in {"USD", "EUR", "GBP", "JPY", "RUB", "BTC", "ETH"} |->
        CASE c = "USD" -> One
          [] c = "EUR" -> Rat(85, 100)
          [] c = "GBP" -> Rat(73, 100)
          [] c = "JPY" -> Rat(110, 1)
          [] c = "RUB" -> Rat(80, 1)
          [] c = "BTC" -> Rat(100000, 1)
          [] c = "ETH" -> Rat(3000, 1)]

\* round(x, 2) for x >= 0: the nearest multiple of 1/100, ties to even
Round2(x) ==
    LET m == x.n * 100
        q == m \div x.d
        r == m % x.d
    IN IF 2 * r < x.d THEN Rat(q, 100)
       ELSE IF 2 * r > x.d THEN Rat(q + 1, 100)
       ELSE IF q % 2 = 0 THEN Rat(q, 100) ELSE Rat(q + 1, 100)

\* one pass of the loop of get_total_value: what a wallet adds to total_value
ValueInBase(code, balance, base) ==
    IF code = base
    THEN balance
    ELSE LET value_in_usd == RMul(balance, ExchangeRates[code])
         IN IF base # "USD"
            THEN RDiv(value_in_usd, ExchangeRates[base])
            ELSE value_in_usd

RECURSIVE TotalOver(_, _, _)
\* the loop of get_total_value over the wallets named in codes
TotalOver(w, codes, base) ==
    IF codes = {}
    THEN Zero
    ELSE LET c == CHOOSE x \in codes : TRUE
             rest == TotalOver(w, codes \ {c}, base)
         IN IF c \notin DOMAIN ExchangeRates
            THEN rest
            ELSE RAdd(rest, ValueInBase(c, w[c], base))

GetTotalValueUnknownFails(w, base) ==
    IF base \notin DOMAIN ExchangeRates
    THEN [res |-> "ValueError", value |-> Zero]
    ELSE IF \E c \in DOMAIN w : c \notin DOMAIN ExchangeRates
    THEN [res |-> "ValueError", value |-> Zero]
    ELSE [res |-> "ok", value |-> Round2(TotalOver(w, DOMAIN w, base))]

\* Portfolio.get_total_value
GetTotalValue(w, base) ==
    IF base \notin DOMAIN ExchangeRates
    THEN [res |-> "ValueError", value |-> Zero]
    ELSE [res |-> "ok", value |-> Round2(TotalOver(w, DOMAIN w, base))]

(***************************************************************************)
(* Portfolio.to_dict / Portfolio.from_dict and the portfolio store         *)
(***************************************************************************)
\* Portfolio.to_dict()["wallets"]: code -> {"currency_code", "balance"}
ToDict(w) == [c \in DOMAIN w |-> [currency_code |-> c, balance |-> w[c]]]

\* Portfolio.from_dict: the wallets rebuilt from a persisted record
FromDict(d) == [c \in DOMAIN d |-> d[c].balance]

\* str(user_id), the key of a user's record
UserKey(user) == ToString(user)

EmptyRecordWithStarter == [wallets |-> ToDict(PutWallet(EmptyWallets, "USD", One))]

\* the record register_user and get_user_portfolio create
EmptyRecord == [wallets |-> ToDict(EmptyWallets)]

\* the store after get_user_portfolio: an absent record is created empty
LoadedStore(st, user) ==
    IF UserKey(user) \in DOMAIN st THEN st
    ELSE [k \in DOMAIN st \cup {UserKey(user)} |->
            IF k = UserKey(user) THEN EmptyRecord ELSE st[k]]

\* UserManager.get_user_portfolio: the wallets of the Portfolio returned
GetUserPortfolio(st, user) == FromDict(LoadedStore(st, user)[UserKey(user)].wallets)

\* UserManager.save_user_portfolio
SaveUserPortfolio(st, user, w) ==
    [k \in DOMAIN st \cup {UserKey(user)} |->
        IF k = UserKey(user)
        THEN [user_id |-> user, wallets |-> ToDict(w)]
        ELSE st[k]]

(***************************************************************************)
(* CurrencyService: the rate cache                                         *)
(***************************************************************************)
FreshMinutes == 5

\* stub_rates of get_exchange_rate (the same table as in get_total_value)
StubRates ==
    [USD |-> One, EUR |-> Rat(17, 20), GBP |-> Rat(73, 100),
     JPY |-> Rat(110, 1), RUB |-> Rat(80, 1), BTC |-> Rat(100000, 1),
     ETH |-> Rat(3000, 1)]

\* f"{from_currency}_{to_currency}"
PairKey(from, to) == from \o "_" \o to

Quote(rate, at) == [rate |-> rate, updated_at |-> at]

\* the file _ensure_rates_file writes at time `at`
InitialRates(at) ==
    [USD_USD |-> Quote(One, at), EUR_USD |-> Quote(Rat(17, 20), at),
     GBP_USD |-> Quote(Rat(73, 100), at), JPY_USD |-> Quote(Rat(110, 1), at),
     RUB_USD |-> Quote(Rat(80, 1), at), BTC_USD |-> Quote(Rat(100000, 1), at),
     ETH_USD |-> Quote(Rat(3000, 1), at),
     source |-> "stub", last_refresh |-> at]

FreshWhateverAge(r, key, t) == key \in DOMAIN r

\* datetime.now() - updated_at < timedelta(minutes=5)
Fresh(r, key, t) == key \in DOMAIN r /\ t - r[key].updated_at < FreshMinutes

Got(rate, via) == [res |-> "ok", rate |-> rate, via |-> via]
Failed(error) == [res |-> error, rate |-> Zero, via |-> "none"]

StubFallbackInverted(from, to) ==
    IF from \in DOMAIN StubRates /\ to \in DOMAIN StubRates
    THEN Got(RDiv(StubRates[from], StubRates[to]), "stub")
    ELSE Failed("ValueError")

\* the last resort of get_exchange_rate: the ratio of the stub multipliers
StubFallback(from, to) ==
    IF from \in DOMAIN StubRates /\ to \in DOMAIN StubRates
    THEN Got(RDiv(StubRates[to], StubRates[from]), "stub")
    ELSE Failed("ValueError")

\* CurrencyService.get_exchange_rate at time t; res is "ok", "ValueError" or
\* "ZeroDivisionError", via names the branch that answered
GetExchangeRate(r, t, from, to) ==
    IF from = to THEN Got(One, "same")
    ELSE IF Fresh(r, PairKey(from, to), t)
    THEN Got(r[PairKey(from, to)].rate, "direct")
    ELSE IF Fresh(r, PairKey(to, from), t)
    THEN IF r[PairKey(to, from)].rate = Zero
         THEN Failed("ZeroDivisionError")
         ELSE Got(RDiv(One, r[PairKey(to, from)].rate), "reverse")
    ELSE StubFallback(from, to)

UpdateExchangeRateDropsReverse(r, t, from, to, rate) ==
    [k \in (DOMAIN r \ {PairKey(to, from)})
            \cup {PairKey(from, to), "last_refresh", "source"} |->
        CASE k = PairKey(from, to) -> Quote(rate, t)
          [] k = "last_refresh" -> t
          [] k = "source" -> "stub"
          [] OTHER -> r[k]]

\* CurrencyService.update_exchange_rate at time t
UpdateExchangeRate(r, t, from, to, rate) ==
    [k \in DOMAIN r \cup {PairKey(from, to), "last_refresh", "source"} |->
        CASE k = PairKey(from, to) -> Quote(rate, t)
          [] k = "last_refresh" -> t
          [] k = "source" -> "stub"
          [] OTHER -> r[k]]

(***************************************************************************)
(* TradingService                                                          *)
(***************************************************************************)
NoReceipt == [success |-> FALSE]

\* outcome of a service call: err is "" on success; lookup tells whether
\* get_exchange_rate was invoked; portfolio is the in-memory Portfolio
Outcome(err, st, lookup, w, receipt) ==
    [err |-> err, store |-> st, lookup |-> lookup, portfolio |-> w,
     receipt |-> receipt]

TradeBuySavesFirst(st, r, t, user, currency, amount) ==
    IF RLe(amount, Zero)
    THEN Outcome("amount", st, FALSE, EmptyWallets, NoReceipt)
    ELSE
    LET st1 == LoadedStore(st, user)
        portfolio == GetUserPortfolio(st, user)
        q == GetExchangeRate(r, t, currency, "USD")
        b == BuyCurrency(portfolio, currency, amount, q.rate)
        st2 == SaveUserPortfolio(st1, user, b.wallets)
    IN IF q.res = "ValueError"
       THEN Outcome("rate", st1, TRUE, portfolio, NoReceipt)
       ELSE IF q.res # "ok"
       THEN Outcome(q.res, st1, TRUE, portfolio, NoReceipt)
       ELSE IF b.res = "ValueError"
       THEN Outcome("portfolio", st1, TRUE, b.wallets, NoReceipt)
       ELSE IF b.res # "True"
       THEN Outcome("insufficient", st2, TRUE, b.wallets, NoReceipt)
       ELSE Outcome("", st2, TRUE, b.wallets,
                [success |-> TRUE, currency |-> currency, amount |-> amount,
                 rate |-> q.rate, total |-> RMul(amount, q.rate),
                 old_balance |-> RSub(b.wallets[Upper(currency)], amount),
                 new_balance |-> b.wallets[Upper(currency)]])

\* TradingService.buy_currency
TradeBuy(st, r, t, user, currency, amount) ==
    IF RLe(amount, Zero)
    THEN Outcome("amount", st, FALSE, EmptyWallets, NoReceipt)
    ELSE
    LET st1 == LoadedStore(st, user)
        portfolio == GetUserPortfolio(st, user)
        q == GetExchangeRate(r, t, currency, "USD")
        b == BuyCurrency(portfolio, currency, amount, q.rate)
    IN IF q.res = "ValueError"
       THEN Outcome("rate", st1, TRUE, portfolio, NoReceipt)
       ELSE IF q.res # "ok"
       THEN Outcome(q.res, st1, TRUE, portfolio, NoReceipt)
       ELSE IF b.res = "ValueError"
       THEN Outcome("portfolio", st1, TRUE, b.wallets, NoReceipt)
       ELSE IF b.res # "True"
       THEN Outcome("insufficient", st1, TRUE, b.wallets, NoReceipt)
       ELSE Outcome("", SaveUserPortfolio(st1, user, b.wallets), TRUE, b.wallets,
                [success |-> TRUE, currency |-> currency, amount |-> amount,
                 rate |-> q.rate, total |-> RMul(amount, q.rate),
                 old_balance |-> RSub(b.wallets[Upper(currency)], amount),
                 new_balance |-> b.wallets[Upper(currency)]])

TradeSellRateFirst(st, r, t, user, currency, amount) ==
    IF RLe(amount, Zero)
    THEN Outcome("amount", st, FALSE, EmptyWallets, NoReceipt)
    ELSE
    LET st1 == LoadedStore(st, user)
        portfolio == GetUserPortfolio(st, user)
        q == GetExchangeRate(r, t, currency, "USD")
        b == SellCurrency(portfolio, currency, amount, q.rate)
    IN IF q.res = "ValueError"
       THEN Outcome("rate", st1, TRUE, portfolio, NoReceipt)
       ELSE IF q.res # "ok"
       THEN Outcome(q.res, st1, TRUE, portfolio, NoReceipt)
       ELSE IF ~ HasWallet(portfolio, currency)
       THEN Outcome("no_wallet", st1, TRUE, portfolio, NoReceipt)
       ELSE IF RLt(portfolio[Upper(currency)], amount)
       THEN Outcome("insufficient", st1, TRUE, portfolio, NoReceipt)
       ELSE IF b.res = "ValueError"
       THEN Outcome("portfolio", st1, TRUE, b.wallets, NoReceipt)
       ELSE IF b.res # "True"
       THEN Outcome("sell_failed", st1, TRUE, b.wallets, NoReceipt)
       ELSE Outcome("", SaveUserPortfolio(st1, user, b.wallets), TRUE, b.wallets,
                [success |-> TRUE, currency |-> currency, amount |-> amount,
                 rate |-> q.rate, total |-> RMul(amount, q.rate),
                 old_balance |-> RAdd(b.wallets[Upper(currency)], amount),
                 new_balance |-> b.wallets[Upper(currency)]])

\* TradingService.sell_currency
TradeSell(st, r, t, user, currency, amount) ==
    IF RLe(amount, Zero)
    THEN Outcome("amount", st, FALSE, EmptyWallets, NoReceipt)
    ELSE
    LET st1 == LoadedStore(st, user)
        portfolio == GetUserPortfolio(st, user)
        q == GetExchangeRate(r, t, currency, "USD")
        b == SellCurrency(portfolio, currency, amount, q.rate)
    IN IF ~ HasWallet(portfolio, currency)
       THEN Outcome("no_wallet", st1, FALSE, portfolio, NoReceipt)
       ELSE IF RLt(portfolio[Upper(currency)], amount)
       THEN Outcome("insufficient", st1, FALSE, portfolio, NoReceipt)
       ELSE IF q.res = "ValueError"
       THEN Outcome("rate", st1, TRUE, portfolio, NoReceipt)
       ELSE IF q.res # "ok"
       THEN Outcome(q.res, st1, TRUE, portfolio, NoReceipt)
       ELSE IF b.res = "ValueError"
       THEN Outcome("portfolio", st1, TRUE, b.wallets, NoReceipt)
       ELSE IF b.res # "True"
       THEN Outcome("sell_failed", st1, TRUE, b.wallets, NoReceipt)
       ELSE Outcome("", SaveUserPortfolio(st1, user, b.wallets), TRUE, b.wallets,
                [success |-> TRUE, currency |-> currency, amount |-> amount,
                 rate |-> q.rate, total |-> RMul(amount, q.rate),
                 old_balance |-> RAdd(b.wallets[Upper(currency)], amount),
                 new_balance |-> b.wallets[Upper(currency)]])

(***************************************************************************)
(* Inputs of the portfolio-level operations.                               *)
(***************************************************************************)
PCodes == {"USD", "BTC", "btc", "ABCD"}
PAmounts == {Rat(-1, 1), Zero, One, Rat(2, 1)}
PPrices == {Zero, Rat(1, 2), Rat(2, 1)}

W1(c1, b1) == PutWallet(EmptyWallets, c1, b1)
W2(c1, b1, c2, b2) == PutWallet(W1(c1, b1), c2, b2)

\* wallets handed to the Portfolio constructor
InitPortfolios ==
    {EmptyWallets, W1("USD", Rat(4, 1)), W1("BTC", Rat(2, 1)),
     W2("USD", Rat(2, 1), "BTC", One)}

WithinBalance(w) == \A c \in DOMAIN w : RLe(w[c], Rat(MaxBalance, 1))

NoCall ==
    [op |-> "init", code |-> "", amount |-> Zero, price |-> Zero,
     pre |-> EmptyWallets, res |-> ""]

Called(op, code, amount, price, res) ==
    [op |-> op, code |-> code, amount |-> amount, price |-> price,
     pre |-> pf, res |-> res]

TradingVars == <<store, rates, now, steps, tlast, lastSet, procs>>

\* wallet.deposit(amount) on a wallet of the portfolio
PDeposit(code, amount) ==
    /\ code \in DOMAIN pf
    /\ LET r == WalletDeposit(pf[code], amount)
       IN /\ pf' = [pf EXCEPT ![code] = r.balance]
          /\ WithinBalance(pf')
          /\ plast' = Called("deposit", code, amount, Zero, r.res)
    /\ UNCHANGED TradingVars

\* wallet.withdraw(amount) on a wallet of the portfolio
PWithdraw(code, amount) ==
    /\ code \in DOMAIN pf
    /\ LET r == WalletWithdraw(pf[code], amount)
       IN /\ pf' = [pf EXCEPT ![code] = r.balance]
          /\ plast' = Called("withdraw", code, amount, Zero, r.res)
    /\ UNCHANGED TradingVars

\* portfolio.add_currency(code, initial)
PAddCurrency(code, initial) ==
    /\ LET r == AddCurrency(pf, code, initial)
       IN /\ pf' = r.wallets
          /\ plast' = Called("add", code, initial, Zero, r.res)
    /\ UNCHANGED TradingVars

\* portfolio.buy_currency(code, amount, price)
PBuy(code, amount, price) ==
    /\ LET r == BuyCurrency(pf, code, amount, price)
       IN /\ pf' = r.wallets
          /\ WithinBalance(pf')
          /\ plast' = Called("buy", code, amount, price, r.res)
    /\ UNCHANGED TradingVars

\* portfolio.sell_currency(code, amount, price)
PSell(code, amount, price) ==
    /\ LET r == SellCurrency(pf, code, amount, price)
       IN /\ pf' = r.wallets
          /\ WithinBalance(pf')
          /\ plast' = Called("sell", code, amount, price, r.res)
    /\ UNCHANGED TradingVars

\* portfolio.buy_currency(code, amount, price) and, when it returned True,
\* portfolio.sell_currency(code, amount, price) right after it
PBuyThenSell(code, amount, price) ==
    /\ LET b == BuyCurrency(pf, code, amount, price)
           s == IF b.res = "True"
                THEN SellCurrency(b.wallets, code, amount, price)
                ELSE [res |-> "not called", wallets |-> b.wallets]
       IN /\ WithinBalance(b.wallets)
          /\ pf' = s.wallets
          /\ plast' = [op |-> "buy_sell", code |-> code, amount |-> amount,
                       price |-> price, pre |-> pf, res |-> s.res,
                       bought |-> b.res, mid |-> b.wallets]
    /\ UNCHANGED TradingVars

\* no update_exchange_rate call was made yet
NeverSet == [set |-> FALSE]

TradingInit ==
    /\ store = <<>>
    /\ rates = <<>>
    /\ now = 0
    /\ steps = 0
    /\ tlast = [op |-> "init"]
    /\ lastSet = NeverSet
    /\ procs = <<>>

InitPortfolio ==
    /\ pf \in InitPortfolios
    /\ plast = NoCall
    /\ TradingInit

NextPortfolio ==
    \/ \E c \in PCodes, a \in PAmounts : PDeposit(c, a)
    \/ \E c \in PCodes, a \in PAmounts : PWithdraw(c, a)
    \/ \E c \in PCodes, a \in PAmounts : PAddCurrency(c, a)
    \/ \E c \in PCodes, a \in PAmounts, p \in PPrices : PBuy(c, a, p)
    \/ \E c \in PCodes, a \in PAmounts, p \in PPrices : PSell(c, a, p)

SpecPortfolio == InitPortfolio /\ [][NextPortfolio]_vars

VCodes == {"USD", "EUR", "BTC", "XYZ"}
VBases == {"USD", "EUR", "BTC", "XYZ", "usd"}

\* portfolio.get_total_value(base)
PTotalValue(base) ==
    /\ LET r == GetTotalValue(pf, base)
       IN plast' = [op |-> "total_value", code |-> base, amount |-> Zero,
                    price |-> Zero, pre |-> pf, res |-> r.res,
                    value |-> r.value]
    /\ UNCHANGED <<pf, TradingVars>>

\* valuations of portfolios that deposits and new wallets have shaped
NextValuation ==
    \/ \E c \in VCodes, a \in PAmounts : PDeposit(c, a)
    \/ \E c \in VCodes, a \in PAmounts : PAddCurrency(c, a)
    \/ \E b \in VBases : PTotalValue(b)

SpecValuation == InitPortfolio /\ [][NextValuation]_vars

\* round trips on portfolios that deposits and new wallets have shaped
NextRoundTrip ==
    \/ \E c \in PCodes, a \in PAmounts : PDeposit(c, a)
    \/ \E c \in PCodes, a \in PAmounts : PAddCurrency(c, a)
    \/ \E c \in PCodes, a \in PAmounts, p \in PPrices : PBuyThenSell(c, a, p)

SpecRoundTrip == InitPortfolio /\ [][NextRoundTrip]_vars

(***************************************************************************)
(* Service-level operations                                                *)
(***************************************************************************)
(***************************************************************************)
(* CLI: the show-portfolio command of a logged-in user                     *)
(***************************************************************************)
\* one pass of the loop of _handle_show_portfolio: the row of a wallet, or
\* the exception that leaves the loop
ReportLine(r, t, code, balance, base) ==
    IF code = base
    THEN [res |-> "ok", kind |-> "value", value |-> balance]
    ELSE LET q == GetExchangeRate(r, t, code, base)
         IN IF q.res = "ok"
            THEN [res |-> "ok", kind |-> "value", value |-> RMul(balance, q.rate)]
            ELSE IF q.res = "ValueError"
            THEN [res |-> "ok", kind |-> "unknown", value |-> Zero]
            ELSE [res |-> q.res, kind |-> "none", value |-> Zero]

\* what the command printed and how it ended
Report(res, st, w, lines, total) ==
    [res |-> res, store |-> st, wallets |-> w, lines |-> lines, total |-> total]

NoLines == [c \in {} |-> [res |-> "ok", kind |-> "none", value |-> Zero]]
NoTotal == [printed |-> FALSE]

\* CLI._handle_show_portfolio
ShowPortfolio(st, r, t, user, base) ==
    LET st1 == LoadedStore(st, user)
        w == GetUserPortfolio(st, user)
        base_currency == Upper(base)
        total_value == GetTotalValue(w, base_currency)
        rows == [c \in DOMAIN w |-> ReportLine(r, t, c, w[c], base_currency)]
    IN IF total_value.res # "ok"
       THEN Report("ValueError", st1, w, NoLines, NoTotal)
       ELSE IF DOMAIN w = {}
       THEN Report("ok", st1, w, NoLines, NoTotal)
       ELSE IF \E c \in DOMAIN w : rows[c].res # "ok"
       THEN Report(rows[CHOOSE c \in DOMAIN w : rows[c].res # "ok"].res, st1, w,
                   NoLines, NoTotal)
       ELSE Report("ok", st1, w, rows,
                   [printed |-> TRUE, value |-> total_value.value])

Users == {1, 2}
TCodes == {"USD", "EUR", "XYZ"}
TimeSteps == {4, 5}
TAmounts == {Zero, One, Rat(2, 1)}
TRates == {Zero, Rat(2, 1)}
RCodes == {"USD", "BTC", "EUR", "XYZ"}
RRates == {Zero, Rat(3, 1)}

Saved(user, w) == [user_id |-> user, wallets |-> ToDict(w)]

\* contents of portfolios.json when the services are constructed
\* (user 1 registered, or user 1 holding wallets; user 2 has no record yet)
InitStores ==
    {[k \in {"1"} |-> EmptyRecord],
     [k \in {"1"} |-> Saved(1, W2("USD", One, "XYZ", One))]}

PortfolioVars == <<pf, plast>>

\* d minutes pass
Tick(d) ==
    /\ now + d <= MaxTime
    /\ now' = now + d
    /\ tlast' = [op |-> "tick"]
    /\ UNCHANGED <<PortfolioVars, store, rates, steps, lastSet, procs>>

\* currency_service.update_exchange_rate(from, to, rate)
SetRate(from, to, rate) ==
    /\ steps < MaxUpdates
    /\ steps' = steps + 1
    /\ rates' = UpdateExchangeRate(rates, now, from, to, rate)
    /\ tlast' = [op |-> "set_rate", from |-> from, to |-> to, rate |-> rate,
                 rates |-> rates, at |-> now]
    /\ lastSet' = [set |-> TRUE, from |-> from, to |-> to, rate |-> rate,
                   at |-> now]
    /\ UNCHANGED <<PortfolioVars, store, now, procs>>

\* currency_service.get_exchange_rate(from, to)
GetRate(from, to) ==
    /\ tlast' = [op |-> "get_rate", from |-> from, to |-> to,
                 quote |-> GetExchangeRate(rates, now, from, to),
                 rates |-> rates]
    /\ UNCHANGED <<PortfolioVars, store, rates, now, steps, lastSet, procs>>

Traded(op, user, currency, amount, out) ==
    [op |-> op, user |-> user, currency |-> currency, amount |-> amount,
     before |-> store, err |-> out.err,
     lookup |-> out.lookup, portfolio |-> out.portfolio,
     receipt |-> out.receipt]

\* trading_service.buy_currency(user, currency, amount)
Buy(user, currency, amount) ==
    LET out == TradeBuy(store, rates, now, user, currency, amount)
    IN /\ out.err = "" => steps < MaxSteps
       /\ steps' = IF out.err = "" THEN steps + 1 ELSE steps
       /\ store' = out.store
       /\ tlast' = Traded("buy", user, currency, amount, out)
       /\ UNCHANGED <<PortfolioVars, rates, now, lastSet, procs>>

\* trading_service.sell_currency(user, currency, amount)
Sell(user, currency, amount) ==
    LET out == TradeSell(store, rates, now, user, currency, amount)
    IN /\ out.err = "" => steps < MaxSteps
       /\ steps' = IF out.err = "" THEN steps + 1 ELSE steps
       /\ store' = out.store
       /\ tlast' = Traded("sell", user, currency, amount, out)
       /\ UNCHANGED <<PortfolioVars, rates, now, lastSet, procs>>

InitTrading ==
    /\ pf = EmptyWallets
    /\ plast = NoCall
    /\ store \in InitStores
    /\ rates = InitialRates(0)
    /\ now = 0
    /\ steps = 0
    /\ tlast = [op |-> "init"]
    /\ lastSet = NeverSet
    /\ procs = <<>>

NextTrading ==
    \/ \E d \in TimeSteps : Tick(d)
    \/ \E r \in TRates : SetRate("XYZ", "USD", r)
    \/ \E r \in TRates : SetRate("USD", "XYZ", r)
    \/ \E u \in Users, c \in TCodes, a \in TAmounts : Buy(u, c, a)
    \/ \E u \in Users, c \in TCodes, a \in TAmounts : Sell(u, c, a)

SpecTrading == InitTrading /\ [][NextTrading]_vars

\* portfolios.json for the reports: user 1 without wallets or holding
\* USD, EUR and XYZ; user 2 has no record yet
ReportStores ==
    {[k \in {"1"} |-> EmptyRecord],
     [k \in {"1"} |-> Saved(1, PutWallet(W2("USD", One, "EUR", Rat(2, 1)),
                                         "XYZ", One))]}

ReportBases == {"USD", "usd", "EUR", "XYZ"}

\* show-portfolio --base base, user logged in
Show(user, base) ==
    LET out == ShowPortfolio(store, rates, now, user, base)
    IN /\ store' = out.store
       /\ tlast' = [op |-> "show", user |-> user, base |-> base,
                    before |-> store, out |-> out]
       /\ UNCHANGED <<PortfolioVars, rates, now, steps, lastSet, procs>>

InitReport ==
    /\ pf = EmptyWallets
    /\ plast = NoCall
    /\ store \in ReportStores
    /\ rates = InitialRates(0)
    /\ now = 0
    /\ steps = 0
    /\ tlast = [op |-> "init"]
    /\ lastSet = NeverSet
    /\ procs = <<>>

NextReport ==
    \/ \E d \in TimeSteps : Tick(d)
    \/ \E f \in {"USD", "EUR", "XYZ"}, r \in TRates : SetRate(f, "USD", r)
    \/ \E t \in {"EUR", "XYZ"}, r \in TRates : SetRate("USD", t, r)
    \/ \E u \in Users, b \in ReportBases : Show(u, b)

SpecReport == InitReport /\ [][NextReport]_vars

(***************************************************************************)
(* Two TradingService calls in two processes on the same data directory.   *)
(* A call reads portfolios.json in get_user_portfolio and rewrites it in   *)
(* save_user_portfolio; everything between the two works on the Portfolio  *)
(* object the process holds.                                               *)
(***************************************************************************)
Procs == {1, 2}
RaceOps == {"buy", "sell"}
RaceAmounts == {Zero, One, Rat(2, 1)}

\* portfolios.json when the two processes start
RaceStores == {[k \in {"1"} |-> Saved(1, W2("USD", Rat(2, 1), "EUR", Rat(2, 1)))]}

Idle == [pc |-> "idle"]

\* the call of a process up to the return of get_user_portfolio; a call
\* with amount <= 0 raises before it reads the store
RaceLoad(p, op, user, currency, amount) ==
    /\ procs[p].pc = "idle"
    /\ steps' = steps + 1
    /\ IF RLe(amount, Zero)
       THEN /\ procs' = [procs EXCEPT ![p] =
                           [pc |-> "done", op |-> op, user |-> user,
                            currency |-> currency, amount |-> amount,
                            snap |-> EmptyWallets, loaded |-> steps,
                            err |-> "amount", portfolio |-> EmptyWallets,
                            receipt |-> NoReceipt, saved |-> steps]]
            /\ store' = store
       ELSE /\ procs' = [procs EXCEPT ![p] =
                           [pc |-> "loaded", op |-> op, user |-> user,
                            currency |-> currency, amount |-> amount,
                            snap |-> GetUserPortfolio(store, user),
                            loaded |-> steps]]
            /\ store' = LoadedStore(store, user)
    /\ UNCHANGED <<PortfolioVars, rates, now, tlast, lastSet>>

\* the trade of a process on the store st
RunTrade(st, r, t, proc) ==
    IF proc.op = "buy"
    THEN TradeBuy(st, r, t, proc.user, proc.currency, proc.amount)
    ELSE TradeSell(st, r, t, proc.user, proc.currency, proc.amount)

\* save_user_portfolio of a successful trade rereads the file st and
\* replaces the record of the user; a failed trade writes nothing
Finished(st, proc, out) ==
    [err |-> out.err, portfolio |-> out.portfolio, receipt |-> out.receipt,
     store |-> IF out.err = ""
               THEN SaveUserPortfolio(st, proc.user, out.portfolio)
               ELSE st]

FinishTradeReloads(st, r, t, proc) == RunTrade(st, r, t, proc)

\* the rest of the call of a process: the trade on the Portfolio it loaded,
\* then the save
FinishTrade(st, r, t, proc) ==
    Finished(st, proc,
             RunTrade(SaveUserPortfolio(st, proc.user, proc.snap), r, t, proc))

\* the state of a process whose call has returned
Done(proc, out, at) ==
    [pc |-> "done", op |-> proc.op, user |-> proc.user,
     currency |-> proc.currency, amount |-> proc.amount, snap |-> proc.snap,
     loaded |-> proc.loaded, err |-> out.err, portfolio |-> out.portfolio,
     receipt |-> out.receipt, saved |-> at]

RaceCommit(p, out) ==
    /\ store' = out.store
    /\ procs' = [procs EXCEPT ![p] = Done(procs[p], out, steps)]

RaceFinish(p) ==
    /\ procs[p].pc = "loaded"
    /\ steps' = steps + 1
    /\ RaceCommit(p, FinishTrade(store, rates, now, procs[p]))
    /\ UNCHANGED <<PortfolioVars, rates, now, tlast, lastSet>>

InitRace ==
    /\ pf = EmptyWallets
    /\ plast = NoCall
    /\ store \in RaceStores
    /\ rates = InitialRates(0)
    /\ now = 0
    /\ steps = 0
    /\ tlast = [op |-> "init"]
    /\ lastSet = NeverSet
    /\ procs = [p \in Procs |-> Idle]

NextRace ==
    \/ \E p \in Procs, op \in RaceOps, u \in Users, c \in {"EUR", "XYZ"},
          a \in RaceAmounts : RaceLoad(p, op, u, c, a)
    \/ \E p \in Procs : RaceFinish(p)

SpecRace == InitRace /\ [][NextRace]_vars

InitRates ==
    /\ pf = EmptyWallets
    /\ plast = NoCall
    /\ store = <<>>
    /\ rates = InitialRates(0)
    /\ now = 0
    /\ steps = 0
    /\ tlast = [op |-> "init"]
    /\ lastSet = NeverSet
    /\ procs = <<>>

NextRates ==
    \/ \E d \in TimeSteps : Tick(d)
    \/ \E f \in RCodes, t \in RCodes, r \in RRates : SetRate(f, t, r)
    \/ \E f \in RCodes, t \in RCodes : GetRate(f, t)

SpecRates == InitRates /\ [][NextRates]_vars

(***************************************************************************)
(* Portfolio-level properties                                              *)
(***************************************************************************)
BalanceOr0(w, c) == IF c \in DOMAIN w THEN w[c] ELSE Zero

OthersUnchanged(touched) ==
    /\ DOMAIN pf \ touched = DOMAIN plast.pre \ touched
    /\ \A c \in DOMAIN pf \ touched : pf[c] = plast.pre[c]

PositiveArgs == RLt(Zero, plast.amount) /\ RLt(Zero, plast.price)

\* C1 (as stated): after every successful buy_currency(target, amount, price),
\* for every target code, USD = USD before - amount*price, target = target
\* before (0 if absent) + amount, and every other wallet is unchanged.
C1_BuySettlesExactly ==
    (plast.op = "buy" /\ plast.res = "True") =>
        LET t == Upper(plast.code)
        IN /\ pf["USD"] = RSub(plast.pre["USD"], RMul(plast.amount, plast.price))
           /\ t \in DOMAIN pf
           /\ pf[t] = RAdd(BalanceOr0(plast.pre, t), plast.amount)
           /\ OthersUnchanged({"USD", t})

\* C2 (as stated): after every successful sell_currency(source, amount,
\* price), for every source code, source = source before - amount, USD = USD
\* before (0 if absent) + amount*price, and every other wallet is unchanged.
C2_SellSettlesExactly ==
    (plast.op = "sell" /\ plast.res = "True") =>
        LET s == Upper(plast.code)
        IN /\ pf[s] = RSub(plast.pre[s], plast.amount)
           /\ "USD" \in DOMAIN pf
           /\ pf["USD"] = RAdd(BalanceOr0(plast.pre, "USD"),
                               RMul(plast.amount, plast.price))
           /\ OthersUnchanged({"USD", s})

\* C3: after any sequence of deposit, withdraw, add_currency, buy_currency
\* and sell_currency calls every balance is >= 0, and a withdraw of more than
\* the balance returns False and leaves the balance unchanged.
C3_BalancesNonNegative ==
    /\ \A c \in DOMAIN pf : RLe(Zero, pf[c])
    /\ (plast.op = "withdraw" /\ RLt(plast.pre[plast.code], plast.amount)) =>
           (plast.res = "False" /\ pf = plast.pre)

C3_Witness ==
    /\ plast.op = "withdraw"
    /\ RLt(plast.pre[plast.code], plast.amount)
    /\ plast.res = "False"
    /\ \E c \in DOMAIN pf : pf[c] = Zero

\* C4 (as stated): a buy_currency with valid amount and price that fails
\* because no USD wallet exists, or returns False because USD < amount*price,
\* leaves the portfolio exactly as before: no wallet created, no balance
\* changed.
C4_FailedBuyLeavesPortfolio ==
    (/\ plast.op = "buy"
     /\ PositiveArgs
     /\ \/ "USD" \notin DOMAIN plast.pre
        \/ RLt(plast.pre["USD"], RMul(plast.amount, plast.price)))
    => (plast.res # "True" /\ pf = plast.pre)

\* C5 (as stated): a sell_currency of more than the balance of the existing
\* source wallet returns False and leaves the portfolio exactly as before:
\* no balance changed and no wallet (no USD wallet) created.
C5_OversellLeavesPortfolio ==
    (/\ plast.op = "sell"
     /\ PositiveArgs
     /\ Upper(plast.code) \in DOMAIN plast.pre
     /\ RLt(plast.pre[Upper(plast.code)], plast.amount))
    => (plast.res = "False" /\ pf = plast.pre)

\* C6: buy_currency with amount <= 0 or price <= 0 fails with the
\* invalid-argument error and leaves the set of wallets and every balance as
\* before, whatever the target and whether or not a USD wallet exists.
C6_InvalidBuyRejected ==
    (plast.op = "buy" /\ ~ PositiveArgs) =>
        (plast.res = "ValueError" /\ pf = plast.pre)

C6_Witness ==
    /\ plast.op = "buy"
    /\ RLt(Zero, plast.amount)
    /\ RLe(plast.price, Zero)
    /\ ~ HasWallet(plast.pre, plast.code)
    /\ WalletCodeOk(plast.code)
    /\ plast.res = "ValueError"

(***************************************************************************)
(* Service-level properties                                                *)
(***************************************************************************)
IsTrade == tlast.op \in {"buy", "sell"}

\* the wallets persisted for a user; an absent record counts as no wallets
PersistedWallets(st, user) ==
    IF UserKey(user) \in DOMAIN st THEN st[UserKey(user)].wallets
    ELSE ToDict(EmptyWallets)

SameRecord(st1, st2, user) ==
    /\ UserKey(user) \in DOMAIN st1 <=> UserKey(user) \in DOMAIN st2
    /\ UserKey(user) \in DOMAIN st1 => st1[UserKey(user)] = st2[UserKey(user)]

\* the portfolio the call loaded
LoadedPortfolio == FromDict(PersistedWallets(tlast.before, tlast.user))

\* C7: a TradingService buy or sell that ends in an error leaves the user's
\* persisted wallets as before the call and changes no other user's record;
\* one that succeeds persists exactly the in-memory portfolio after the
\* mutation.
C7_ErrorsPersistNothing ==
    IsTrade =>
        /\ tlast.err # "" =>
              PersistedWallets(store, tlast.user)
                  = PersistedWallets(tlast.before, tlast.user)
        /\ \A u \in Users \ {tlast.user} : SameRecord(store, tlast.before, u)
        /\ tlast.err = "" =>
              /\ UserKey(tlast.user) \in DOMAIN store
              /\ PersistedWallets(store, tlast.user) = ToDict(tlast.portfolio)

C7_Witness ==
    /\ IsTrade
    /\ tlast.err = "insufficient"
    /\ tlast.portfolio # LoadedPortfolio
    /\ PersistedWallets(store, tlast.user) # ToDict(EmptyWallets)
    /\ \E u \in Users \ {tlast.user} : UserKey(u) \in DOMAIN store

\* C8 (as stated): for every successful buy or sell, for every traded
\* currency code, the receipt's old_balance is the balance persisted before
\* the call (0 if the wallet was absent), new_balance the balance persisted
\* after it, rate the value get_exchange_rate(currency, "USD") returned, and
\* total_cost / total_income is amount * rate.
C8_ReceiptMatchesStore ==
    (IsTrade /\ tlast.err = "") =>
        LET c == Upper(tlast.currency)
            after == FromDict(PersistedWallets(store, tlast.user))
        IN /\ tlast.receipt.old_balance = BalanceOr0(LoadedPortfolio, c)
           /\ tlast.receipt.new_balance = BalanceOr0(after, c)
           /\ tlast.receipt.rate
                = GetExchangeRate(rates, now, tlast.currency, "USD").rate
           /\ tlast.receipt.total = RMul(tlast.amount, tlast.receipt.rate)

\* C9: in sell_currency the wallet-existence and balance checks precede the
\* rate lookup: when the source wallet is missing or holds less than the
\* amount, the call fails with the missing-wallet / insufficient-funds error
\* and get_exchange_rate is not invoked, even when no rate is available.
C9_SellChecksBeforeRate ==
    (/\ tlast.op = "sell"
     /\ \/ ~ HasWallet(LoadedPortfolio, tlast.currency)
        \/ RLt(LoadedPortfolio[Upper(tlast.currency)], tlast.amount))
    => /\ ~ tlast.lookup
       /\ RLt(Zero, tlast.amount) =>
             tlast.err = IF HasWallet(LoadedPortfolio, tlast.currency)
                         THEN "insufficient" ELSE "no_wallet"

C9_Witness ==
    /\ tlast.op = "sell"
    /\ tlast.err = "insufficient"
    /\ HasWallet(LoadedPortfolio, tlast.currency)
    /\ GetExchangeRate(rates, now, tlast.currency, "USD").res # "ok"
    /\ ~ tlast.lookup

(***************************************************************************)
(* Rate-cache properties                                                   *)
(***************************************************************************)
Age(key) == now - rates[key].updated_at

\* C10 (as stated): get_exchange_rate(from, to) resolves in a fixed order:
\* from = to gives 1.0 without consulting the cache; else a direct quote
\* younger than 5 minutes is returned verbatim, even if a fresh reverse quote
\* disagrees; else a reverse quote younger than 5 minutes gives 1/rate; a
\* quote aged 5 minutes or more is never used as a stored quote.
C10_ResolutionOrder ==
    tlast.op = "get_rate" =>
        LET q == tlast.quote
            direct == PairKey(tlast.from, tlast.to)
            reverse == PairKey(tlast.to, tlast.from)
            directFresh == direct \in DOMAIN rates /\ Age(direct) < 5
            reverseFresh == reverse \in DOMAIN rates /\ Age(reverse) < 5
        IN IF tlast.from = tlast.to
           THEN q.res = "ok" /\ q.rate = One /\ q.via = "same"
           ELSE IF directFresh
           THEN q.res = "ok" /\ q.rate = rates[direct].rate /\ q.via = "direct"
           ELSE IF reverseFresh
           THEN /\ q.res = "ok"
                /\ RMul(q.rate, rates[reverse].rate) = One
                /\ q.via = "reverse"
           ELSE q.via \notin {"direct", "reverse"}

\* the freshness of the two stored quotes of the pair asked for, read off the
\* cache
AskedDirect == PairKey(tlast.from, tlast.to)
AskedReverse == PairKey(tlast.to, tlast.from)
DirectFresh == AskedDirect \in DOMAIN rates /\ Age(AskedDirect) < 5
ReverseFresh == AskedReverse \in DOMAIN rates /\ Age(AskedReverse) < 5
InTable(code) == code \in {"USD", "EUR", "GBP", "JPY", "RUB", "BTC", "ETH"}

\* C11: when from # to, no fresh direct and no fresh reverse quote exists and
\* both currencies are in the static table, get_exchange_rate does not fail
\* and returns table[to] / table[from], whether the cache holds stale quotes
\* for the pair or none.
C11_StaticFallbackRatio ==
    (/\ tlast.op = "get_rate"
     /\ tlast.from # tlast.to
     /\ ~ DirectFresh /\ ~ ReverseFresh
     /\ InTable(tlast.from) /\ InTable(tlast.to))
    => /\ tlast.quote.res = "ok"
       /\ tlast.quote.rate = RDiv(StubRates[tlast.to], StubRates[tlast.from])

C11_Witness ==
    /\ tlast.op = "get_rate"
    /\ tlast.from = "BTC" /\ tlast.to = "USD"
    /\ AskedDirect \in DOMAIN rates
    /\ ~ DirectFresh /\ ~ ReverseFresh
    /\ tlast.quote.rate = Rat(1, 100000)

\* C12: get_exchange_rate fails with the rate-unavailable error exactly when
\* from # to, no direct and no reverse quote younger than 5 minutes exists
\* and one of the two currencies is absent from the static table; a stale
\* stored quote does not prevent the failure, and the failing call leaves
\* the cache unchanged.
C12_UnavailableExactly ==
    tlast.op = "get_rate" =>
        /\ tlast.quote.res = "ValueError" <=>
              /\ tlast.from # tlast.to
              /\ ~ DirectFresh /\ ~ ReverseFresh
              /\ ~ (InTable(tlast.from) /\ InTable(tlast.to))
        /\ tlast.quote.res = "ValueError" => rates = tlast.rates

C12_Witness ==
    /\ tlast.op = "get_rate"
    /\ tlast.quote.res = "ValueError"
    /\ AskedDirect \in DOMAIN rates
    /\ ~ DirectFresh

PairKeys == DOMAIN rates \ {"source", "last_refresh"}

\* C13 (as stated): every quote held in the cache after any sequence of
\* update_exchange_rate calls has rate > 0 (a call with rate <= 0 stores
\* nothing), so get_exchange_rate never divides by zero.
C13_StoredRatesPositive ==
    /\ \A k \in PairKeys : RLt(Zero, rates[k].rate)
    /\ tlast.op = "get_rate" => tlast.quote.res # "ZeroDivisionError"

\* what update_exchange_rate may touch: the entry of the pair and the two
\* bookkeeping keys
SetFrame ==
    tlast.op = "set_rate" =>
        LET key == PairKey(tlast.from, tlast.to) IN
        /\ DOMAIN rates = DOMAIN tlast.rates \cup {key}
        /\ rates[key] = [rate |-> tlast.rate, updated_at |-> tlast.at]
        /\ rates["last_refresh"] = tlast.at
        /\ \A k \in DOMAIN tlast.rates \ {key, "source", "last_refresh"} :
              rates[k] = tlast.rates[k]

\* a get_exchange_rate for the pair of the latest update_exchange_rate, less
\* than 5 minutes after it
AsksLatestSet ==
    /\ tlast.op = "get_rate"
    /\ lastSet.set
    /\ tlast.from = lastSet.from /\ tlast.to = lastSet.to
    /\ now - lastSet.at < 5

ReturnsLatestSet == tlast.quote.res = "ok" /\ tlast.quote.rate = lastSet.rate

\* C14 (as stated): update_exchange_rate(from, to, rate) replaces only the
\* from_to entry and the keys source and last_refresh, every other entry
\* (the reverse one included) is unchanged, and get_exchange_rate(from, to)
\* within 5 minutes afterwards returns exactly the rate just set.
C14_SetThenGet ==
    /\ SetFrame
    /\ AsksLatestSet => ReturnsLatestSet

\* C14 (amended): the same, the returned rate being the one just set when
\* from # to; for from = to the answer is 1.0 whatever was stored.
C14_SetThenGetDistinct ==
    /\ SetFrame
    /\ (AsksLatestSet /\ tlast.from # tlast.to) => ReturnsLatestSet
    /\ (AsksLatestSet /\ tlast.from = tlast.to) => tlast.quote.rate = One

\* the rate just set is returned although a fresh reverse entry with a
\* diverging value is stored
C14_Witness ==
    /\ AsksLatestSet
    /\ tlast.from # tlast.to
    /\ ReverseFresh
    /\ RMul(rates[AskedReverse].rate, lastSet.rate) # One
    /\ rates[AskedReverse] = InitialRates(0)[AskedReverse]
    /\ ReturnsLatestSet

\* C15 (as stated): for distinct codes A and B with a fresh quote stored for
\* exactly one direction of the pair, get_exchange_rate(A, B) and
\* get_exchange_rate(B, A) both answer and their product is 1.
C15_Reciprocal ==
    (/\ tlast.op = "get_rate"
     /\ tlast.from # tlast.to
     /\ DirectFresh # ReverseFresh)
    => LET back == GetExchangeRate(rates, now, tlast.to, tlast.from) IN
       /\ tlast.quote.res = "ok"
       /\ back.res = "ok"
       /\ RMul(tlast.quote.rate, back.rate) = One

\* C16: after any sequence of add_currency, buy_currency and sell_currency
\* calls each currency code, compared case-insensitively, has at most one
\* wallet; add_currency for a code that has a wallet fails and leaves the
\* portfolio unchanged; buy and sell create no second wallet for a code;
\* and no operation removes a wallet, a wallet at balance 0 included.
C16_OneWalletPerCode ==
    /\ \A c \in DOMAIN pf : Upper(c) = c
    /\ DOMAIN plast.pre \subseteq DOMAIN pf
    /\ (plast.op = "add" /\ Upper(plast.code) \in DOMAIN plast.pre)
          => plast.res = "ValueError" /\ pf = plast.pre
    /\ plast.op \in {"buy", "sell"}
          => DOMAIN pf \subseteq DOMAIN plast.pre \cup {Upper(plast.code), "USD"}

\* add_currency("btc") refused on a portfolio that holds a BTC wallet
C16_Witness ==
    /\ plast.op = "add"
    /\ plast.code = "btc"
    /\ "BTC" \in DOMAIN plast.pre
    /\ plast.res = "ValueError"
    /\ pf["BTC"] = plast.pre["BTC"]
    /\ plast.amount # pf["BTC"]

RECURSIVE ConvertedSum(_, _, _)
\* the sum over the wallets in codes of balance * mult[code] / mult[base]
ConvertedSum(w, codes, base) ==
    IF codes = {}
    THEN Zero
    ELSE LET c == CHOOSE x \in codes : TRUE
         IN RAdd(RDiv(RMul(w[c], ExchangeRates[c]), ExchangeRates[base]),
                 ConvertedSum(w, codes \ {c}, base))

\* C18: get_total_value(base) fails exactly when base is not in the static
\* table; for a base of the table it returns, whatever the wallets, the sum
\* over the wallets with a currency of the table of
\* balance * mult[currency] / mult[base], rounded to 2 decimals, wallets
\* outside the table adding nothing; the call changes no wallet.
C18_TotalValue ==
    plast.op = "total_value" =>
        /\ plast.res = "ValueError" <=> ~ InTable(plast.code)
        /\ plast.res \in {"ok", "ValueError"}
        /\ pf = plast.pre
        /\ plast.res = "ok" =>
              plast.value =
                Round2(ConvertedSum(pf, {c \in DOMAIN pf : InTable(c)}, plast.code))

\* a valuation in EUR of a portfolio with an XYZ wallet, with a result that
\* rounding changed
C18_Witness ==
    /\ plast.op = "total_value"
    /\ plast.code = "EUR"
    /\ "XYZ" \in DOMAIN pf /\ RLt(Zero, pf["XYZ"])
    /\ "USD" \in DOMAIN pf /\ RLt(Zero, pf["USD"])
    /\ "BTC" \in DOMAIN pf /\ RLt(Zero, pf["BTC"])
    /\ plast.res = "ok"
    /\ plast.value # ConvertedSum(pf, DOMAIN pf \ {"XYZ"}, "EUR")

\* C19 (as stated): in the show-portfolio report with a recognized base
\* currency the command ends normally, every wallet of the portfolio yields
\* exactly one line, a wallet whose get_exchange_rate(currency, base) fails
\* yields a line marked unknown, and the lines of the other wallets and the
\* total are printed.
C19_ReportSurvivesLookupFailure ==
    (tlast.op = "show" /\ InTable(Upper(tlast.base)))
    => LET w == LoadedPortfolio
           out == tlast.out
       IN /\ out.res = "ok"
          /\ DOMAIN out.lines = DOMAIN w
          /\ \A c \in DOMAIN w :
                LET q == GetExchangeRate(rates, now, c, Upper(tlast.base))
                IN IF c # Upper(tlast.base) /\ q.res # "ok"
                   THEN out.lines[c].kind = "unknown"
                   ELSE out.lines[c].kind = "value"
          /\ DOMAIN w # {} => out.total.printed

\* both processes traded for the same user, successfully, and each had
\* loaded the portfolio before the other saved
RacedTrades ==
    /\ \A p \in Procs : procs[p].pc = "done" /\ procs[p].err = ""
    /\ procs[1].user = procs[2].user
    /\ procs[1].loaded < procs[2].saved
    /\ procs[2].loaded < procs[1].saved

LastSaver == IF procs[1].saved > procs[2].saved THEN 1 ELSE 2
FirstSaver == 3 - LastSaver

\* C20: when two trades for the same user both load the portfolio before
\* either saves, both return success receipts and the persisted portfolio
\* after both is the portfolio of the trade that saved last, computed from
\* the balances both had loaded: the changes of the other trade are not in
\* it.
C20_LostUpdate ==
    RacedTrades =>
        /\ \A p \in Procs : procs[p].receipt.success
        /\ procs[1].snap = procs[2].snap
        /\ PersistedWallets(store, procs[1].user) = ToDict(procs[LastSaver].portfolio)
        /\ LET w == FromDict(PersistedWallets(store, procs[1].user))
               last == procs[LastSaver]
               c == Upper(last.currency)
           IN /\ DOMAIN w = DOMAIN last.snap \cup {c, "USD"}
              /\ \A x \in DOMAIN w \ {c, "USD"} : w[x] = last.snap[x]
              /\ last.op = "buy" =>
                    /\ w[c] = RAdd(BalanceOr0(last.snap, c), last.amount)
                    /\ w["USD"] = RSub(last.snap["USD"], last.receipt.total)
              /\ last.op = "sell" =>
                    /\ w[c] = RSub(last.snap[c], last.amount)
                    /\ w["USD"] = RAdd(BalanceOr0(last.snap, "USD"), last.receipt.total)

\* the first saver's purchase of EUR is missing from the persisted record
C20_Witness ==
    /\ RacedTrades
    /\ procs[FirstSaver].op = "buy" /\ procs[LastSaver].op = "buy"
    /\ procs[FirstSaver].portfolio # procs[FirstSaver].snap
    /\ FromDict(PersistedWallets(store, procs[1].user))["EUR"]
          = RAdd(procs[1].snap["EUR"], procs[LastSaver].amount)
    /\ FromDict(PersistedWallets(store, procs[1].user))["USD"]
          = RSub(procs[1].snap["USD"], procs[LastSaver].receipt.total)

\* the X_USD quote written when the cache file was created is still the one
\* stored, and no quote for USD_X was stored since
SeededOnly ==
    /\ AskedDirect \in DOMAIN InitialRates(0)
    /\ rates[AskedDirect] = InitialRates(0)[AskedDirect]
    /\ tlast.from # "USD" => AskedReverse \notin DOMAIN rates

\* C21 (as stated): for every currency X of the static table,
\* get_exchange_rate(X, "USD") returns the same value when it is served from
\* the seeded X_USD quote while that is fresh and when it is served from the
\* static table after the quote has gone stale: in both cases the seeded
\* rate.
C21_FreshAndStaleAgree ==
    (/\ tlast.op = "get_rate"
     /\ tlast.to = "USD"
     /\ InTable(tlast.from)
     /\ SeededOnly)
    => /\ tlast.quote.res = "ok"
       /\ tlast.quote.rate = InitialRates(0)[AskedDirect].rate

\* C22: for a user whose persisted portfolio has no wallets, every
\* TradingService buy and sell fails, for any currency (USD included) and
\* any amount, and the user's persisted portfolio has no wallets afterwards;
\* so a user who never had a record keeps a portfolio without wallets.
C22_EmptyPortfolioCannotTrade ==
    /\ (IsTrade /\ PersistedWallets(tlast.before, tlast.user) = ToDict(EmptyWallets))
          => /\ tlast.err # ""
             /\ ~ tlast.receipt.success
             /\ PersistedWallets(store, tlast.user) = ToDict(EmptyWallets)
    /\ PersistedWallets(store, 2) = ToDict(EmptyWallets)

\* a buy of USD by a user without wallets: refused for lack of funds, the
\* USD wallet made in memory is not persisted
C22_Witness ==
    /\ tlast.op = "buy"
    /\ tlast.currency = "USD"
    /\ PersistedWallets(tlast.before, tlast.user) = ToDict(EmptyWallets)
    /\ tlast.err = "insufficient"
    /\ "USD" \in DOMAIN tlast.portfolio
    /\ PersistedWallets(store, tlast.user) = ToDict(EmptyWallets)

RECURSIVE LineSum(_, _)
\* the sum of the values of the report lines of the wallets in codes
LineSum(lines, codes) ==
    IF codes = {}
    THEN Zero
    ELSE LET c == CHOOSE x \in codes : TRUE
         IN RAdd(lines[c].value, LineSum(lines, codes \ {c}))

\* C23 (as stated): in a show-portfolio report on the cache as it was
\* created, fresh or stale, every wallet whose currency and the base are in
\* the static table has a line whose value is
\* balance * mult[currency] / mult[base], its share of get_total_value(base);
\* hence the values of these lines, summed and rounded, are the total.
C23_LinesMatchTotal ==
    (/\ tlast.op = "show"
     /\ ~ lastSet.set
     /\ tlast.out.res = "ok"
     /\ tlast.out.total.printed)
    => LET out == tlast.out
           base == Upper(tlast.base)
           known == {c \in DOMAIN out.wallets : InTable(c)}
       IN /\ \A c \in known :
                /\ out.lines[c].kind = "value"
                /\ out.lines[c].value =
                     RDiv(RMul(out.wallets[c], ExchangeRates[c]), ExchangeRates[base])
          /\ Round2(LineSum(out.lines, known)) = out.total.value

=============================================================================
